---- MODULE Spec2Model ----
(***************************************************************************)
(* Smart Jam: the frame loop of the App component (note commits, loop      *)
(* boundary detection, phrase gate, generation dispatch), the note         *)
(* segmenter functions handleNoteStart / handleNoteEnd, and the parts of   *)
(* MagentaManager.generateResponse that decide how a request settles.      *)
(*                                                                         *)
(* Time is counted in ticks of one model step, 60 / (120 * 4) s            *)
(* (MagentaManager.js:112).  A pitch in Hz is represented by its distance  *)
(* in cents from 440 Hz: f = 440 * 2^(cents / 1200), so that               *)
(* 69 + 12 * log2(f / 440) = 69 + cents / 100 exactly.                     *)
(*                                                                         *)
(* App is a React function component: a function created during a render   *)
(* sees the useState values of that render for as long as it lives, refs   *)
(* (useRef) are shared mutable cells.  The frame loop is created once per  *)
(* session by listen() and reschedules the same function object, so it     *)
(* reads the useState values of the render in which Start was clicked;     *)
(* loopEnv holds them.                                                     *)
(***************************************************************************)
EXTENDS Integers, Sequences, FiniteSets, TLC

VARIABLES
    isRunning,            \* useState: the session flag the Start/Stop button reads
    isRunningRef,         \* useRef: the flag the frame loop reads
    frameScheduled,       \* animationFrameRef: a frame callback is pending
    loopEnv,              \* useState values captured by the loop closure
    started,              \* listen(): startTime !== null
    relativeTime,         \* listen(): currentTime - startTime of the last frame
    lastLoopEndPosition,  \* listen(): let lastLoopEndPosition
    silenceStartTime,     \* listen(): let silenceStartTime (<<>> is null)
    userNotes,            \* useState: the committed note store
    userNotesRef,         \* useRef: the copy the loop-boundary gate reads
    previousNotesRef,     \* useRef: the last dispatched phrase
    isWaitingForMagenta,  \* useState: the in-flight flag
    pending,              \* promises of generateResponse not yet settled
    aiNotes,              \* useState: the generated notes
    isAddMode,            \* useState isAddMode and modeRef.current.isAddMode
    currentNoteState,     \* useState: the active note of the segmenter
    magentaManager,       \* window.magentaManager is set
    toggleJamPc,          \* toggleJam: "idle", or "metronome" while it awaits startMetronome
    sessions,             \* number of sessions started
    last,                 \* what the last step did (history)
    input,                \* arguments of a function applied on its own
    output                \* what the function returned

vars == <<isRunning, isRunningRef, frameScheduled, loopEnv, started,
          relativeTime, lastLoopEndPosition, silenceStartTime, userNotes,
          userNotesRef, previousNotesRef, isWaitingForMagenta, pending,
          aiNotes, isAddMode, currentNoteState, magentaManager, toggleJamPc,
          sessions, last, input, output>>

appVars == <<isRunning, isRunningRef, frameScheduled, loopEnv, started,
             relativeTime, lastLoopEndPosition, silenceStartTime, userNotes,
             userNotesRef, previousNotesRef, isWaitingForMagenta, pending,
             aiNotes, isAddMode, currentNoteState, magentaManager, toggleJamPc,
             sessions, last>>

(***************************************************************************)
(* Bounds of the model.                                                    *)
(***************************************************************************)
MaxTime == 34        \* ticks of one session that are explored
MaxDt == 3           \* largest gap between two frames, in ticks
MaxNotes == 2        \* commits are explored while the store stays this short
MaxSessions == 2     \* sessions that are explored
SegMaxTime == 5      \* ticks explored when the segmenter functions are driven

(***************************************************************************)
(* Configuration.  The controls are disabled while a session runs, the     *)
(* values below are one of the selectable settings.                        *)
(***************************************************************************)
bpm == 120
BEATS_PER_BAR == 4
SUBDIVISIONS == 8
numberOfBars == 2
gridDivision == 2
maxNoteDuration == 2
StepsPerSecond == (120 * 4) \div 60

\* ticks of a session at which the player is heard
SoundTicks == {0}

\* frequencies the pitch sampler reports, in cents from 440 Hz
PitchCents == {0, 6600}

\* responses of the model: <<pitch, quantizedStartStep, quantizedEndStep>>
ModelResponses == {<<>>, << <<60, 1, 3>> >>}

NoNoteState ==
    [isActive |-> FALSE, pitch |-> 0, startTime |-> 0, startPosition |-> 0,
     lastUpdateTime |-> 0]

Idle == [event |-> "none", boundary |-> FALSE, calls |-> 0, commits |-> <<>>]

NoCall == [fn |-> "none"]

(***************************************************************************)
(* Pure functions.                                                         *)
(***************************************************************************)
\* Math.round(69 + 12 * Math.log2(pitch / 440)); Math.round is floor(x + 1/2)
MidiOf(cents) == 69 + ((cents + 50) \div 100)

Max(a, b) == IF a >= b THEN a ELSE b
Min(a, b) == IF a <= b THEN a ELSE b

Clamp(m) == Max(0, Min(127, m))

\* mutant: the position is not taken modulo the number of cells
calculatePositionNoWrap(time, ticksPerSecond, beatsPerMinute, bars, division) ==
    LET n == 60 * ticksPerSecond
        d == beatsPerMinute * division
    IN  (2 * time * d + n) \div (2 * n)

\* calculatePosition as a function of the configuration it reads:
\* Math.round(time / secondsPerSubdivision) % totalCells, with time in ticks
\* of 1 / ticksPerSecond s
calculatePositionOf(time, ticksPerSecond, beatsPerMinute, bars, division) ==
    LET n == 60 * ticksPerSecond
        d == beatsPerMinute * division
    IN  ((2 * time * d + n) \div (2 * n)) % (bars * BEATS_PER_BAR * division)

calculatePosition(time) ==
    calculatePositionOf(time, StepsPerSecond, bpm, numberOfBars, gridDivision)

totalPositions == numberOfBars * BEATS_PER_BAR * gridDivision

\* the loop: Math.floor(relativeTime / (60 / bpm / gridDivision))
currentPositionOf(time) == (time * bpm * gridDivision) \div (60 * StepsPerSecond)

\* 60 / bpm / gridDivision in ticks
CellTicks == (60 * StepsPerSecond) \div (bpm * gridDivision)

\* mutant: Add mode appends without looking for the note
CommitNoteAppends(prev, note, addMode) ==
    IF addMode
    THEN Append(prev, note)
    ELSE LET Keep(n) == n.startPosition # note.startPosition
         IN  Append(SelectSeq(prev, Keep), note)

\* mutant: Replace mode removes only the notes of the same pitch at the position
CommitNoteSamePitch(prev, note, addMode) ==
    IF addMode
    THEN IF \E i \in 1..Len(prev) :
              prev[i].startPosition = note.startPosition /\ prev[i].pitch = note.pitch
         THEN prev
         ELSE Append(prev, note)
    ELSE LET Keep(n) == ~(n.startPosition = note.startPosition /\ n.pitch = note.pitch)
         IN  Append(SelectSeq(prev, Keep), note)

\* mutant: the updater applies the Add policy whatever the mode is (the mode
\* of the first render)
CommitNoteAlwaysAdds(prev, note, addMode) ==
    IF \E i \in 1..Len(prev) :
          prev[i].startPosition = note.startPosition /\ prev[i].pitch = note.pitch
    THEN prev
    ELSE Append(prev, note)

\* mutant: Replace mode appends without removing the notes at the position
CommitNoteReplaceAppends(prev, note, addMode) ==
    IF addMode
    THEN IF \E i \in 1..Len(prev) :
              prev[i].startPosition = note.startPosition /\ prev[i].pitch = note.pitch
         THEN prev
         ELSE Append(prev, note)
    ELSE Append(prev, note)

\* mutant: Add mode writes the new note over the stored note of its position
\* and pitch
CommitNoteOverwrites(prev, note, addMode) ==
    IF addMode
    THEN IF \E i \in 1..Len(prev) :
              prev[i].startPosition = note.startPosition /\ prev[i].pitch = note.pitch
         THEN [i \in 1..Len(prev) |->
                  IF prev[i].startPosition = note.startPosition
                        /\ prev[i].pitch = note.pitch
                  THEN note ELSE prev[i]]
         ELSE Append(prev, note)
    ELSE LET Keep(n) == n.startPosition # note.startPosition
         IN  Append(SelectSeq(prev, Keep), note)

\* the updater passed to setUserNotes
CommitNote(prev, note, addMode) ==
    IF addMode
    THEN IF \E i \in 1..Len(prev) :
              prev[i].startPosition = note.startPosition /\ prev[i].pitch = note.pitch
         THEN prev
         ELSE Append(prev, note)
    ELSE LET Keep(n) == n.startPosition # note.startPosition
         IN  Append(SelectSeq(prev, Keep), note)

(***************************************************************************)
(* handleNoteEnd, as a function of the note state and the mode it reads:   *)
(* the note it creates and the store after its setUserNotes.  It does not  *)
(* touch userNotesRef.                                                     *)
(***************************************************************************)
NoteOfState(noteState, time) ==
    [pitch |-> MidiOf(noteState.pitch),
     startPosition |-> noteState.startPosition,
     endPosition |-> calculatePosition(time),
     startTime |-> noteState.startTime,
     endTime |-> time]

\* the note the frame loop creates for a pitched frame
NoteOfFrame(cents, position, time) ==
    [pitch |-> Clamp(MidiOf(cents)),
     startPosition |-> position,
     endPosition |-> position + 1,
     startTime |-> time,
     endTime |-> time + CellTicks]

\* history: a commit, the frequency it was made from and the mode it read
CommitRecord(note, cents, addMode, before) ==
    [note |-> note, cents |-> cents, addMode |-> addMode, before |-> before]

(***************************************************************************)
(* The loop-end branch of the frame loop.                                  *)
(***************************************************************************)
\* mutant: the loop end fires on every frame in cell 0
loopEndAtZero(normalizedPosition, lastPosition) ==
    normalizedPosition = 0

\* the loop end test of a frame
loopEndDetected(normalizedPosition, lastPosition) ==
    /\ normalizedPosition = 0
    /\ (lastPosition = totalPositions - 1 \/ lastPosition = -1)

\* mutant: the arrays are compared by identity, and the snapshot is a copy
hasBufferChangedByIdentity(notes, previous) == TRUE

\* JSON.stringify(userNotesRef.current) !== JSON.stringify(previousNotesRef.current)
hasBufferChanged(notes, previous) == notes # previous

(***************************************************************************)
(* The note combiner.  Notes are objects: heap is the sequence of the note *)
(* objects that exist, the input array holds the objects 1..n in order,    *)
(* { ...note } appends a new object.  i is the index the forEach has       *)
(* reached, acc the objects pushed to combinedNotes, cur the object        *)
(* currentNote refers to (0 is null).                                      *)
(***************************************************************************)
RECURSIVE CombineFromAliased(_, _, _, _, _)
\* mutant: currentNote = note, the object of the input array itself
CombineFromAliased(heap, n, i, acc, cur) ==
    IF i > n
    THEN [heap |-> heap, out |-> IF cur = 0 THEN acc ELSE Append(acc, cur)]
    ELSE IF cur = 0
         THEN CombineFromAliased(heap, n, i + 1, acc, i)
         ELSE IF heap[i].pitch = heap[cur].pitch
              THEN CombineFromAliased(
                       [heap EXCEPT ![cur].endTime = heap[i].endTime,
                                    ![cur].endPosition = heap[i].endPosition],
                       n, i + 1, acc, cur)
              ELSE CombineFromAliased(heap, n, i + 1, Append(acc, cur), i)

RECURSIVE CombineFrom(_, _, _, _, _)
CombineFrom(heap, n, i, acc, cur) ==
    IF i > n
    THEN [heap |-> heap, out |-> IF cur = 0 THEN acc ELSE Append(acc, cur)]
    ELSE IF cur = 0
         THEN CombineFrom(Append(heap, heap[i]), n, i + 1, acc, Len(heap) + 1)
         ELSE IF heap[i].pitch = heap[cur].pitch
              THEN CombineFrom(
                       [heap EXCEPT ![cur].endTime = heap[i].endTime,
                                    ![cur].endPosition = heap[i].endPosition],
                       n, i + 1, acc, cur)
              ELSE CombineFrom(Append(heap, heap[i]), n, i + 1, Append(acc, cur),
                               Len(heap) + 1)

\* the array combinedNotes after the forEach and the final push
combinedNotes(notes) ==
    LET r == CombineFrom(notes, Len(notes), 1, <<>>, 0)
    IN  [k \in 1..Len(r.out) |-> r.heap[r.out[k]]]

\* the array the combiner was given, as it is afterwards
notesAfterCombine(notes) ==
    SubSeq(CombineFrom(notes, Len(notes), 1, <<>>, 0).heap, 1, Len(notes))

\* the committed store after the combiner ran over the array of the ref: the
\* two arrays hold the same note objects, a stored note that is in the array
\* of the ref is that object
storeAfterCombine(store, ref) ==
    LET after == notesAfterCombine(ref)
    IN  [i \in 1..Len(store) |->
            IF \E j \in 1..Len(ref) : ref[j] = store[i]
            THEN after[CHOOSE j \in 1..Len(ref) : ref[j] = store[i]]
            ELSE store[i]]

\* combinedNotes.map(...): the notes handed to generateResponse
magentaNotes(notes) ==
    LET c == combinedNotes(notes)
    IN  [i \in 1..Len(c) |->
            [pitch |-> Clamp(c[i].pitch), startTime |-> c[i].startTime,
             endTime |-> c[i].endTime, velocity |-> 100]]

(***************************************************************************)
(* MagentaManager.generateResponse.                                        *)
(***************************************************************************)
validNoteRangeMin == 48
validNoteRangeMax == 83

\* mutant: notes outside the range are moved to its nearest end
validNotesClamped(notes) ==
    [i \in 1..Len(notes) |->
        [notes[i] EXCEPT !.pitch = Max(validNoteRangeMin,
                                       Min(validNoteRangeMax, notes[i].pitch))]]

validNotes(notes) ==
    LET IsValid(n) == n.pitch >= validNoteRangeMin /\ n.pitch <= validNoteRangeMax
    IN  SelectSeq(notes, IsValid)

\* validNotes.map(...): the notes of the sequence that is quantized and given
\* to the model; nothing is built when no note is valid
sequenceNotes(notes) ==
    LET v == validNotes(notes)
    IN  [i \in 1..Len(v) |->
            [pitch |-> v[i].pitch, startTime |-> v[i].startTime,
             endTime |-> v[i].endTime, velocity |-> 100]]

\* is this.model.continueSequence reached?
modelIsCalled(notes) == Len(validNotes(notes)) # 0

\* response.notes.map(...): times are steps * secondsPerStep, one tick each
convertedModelResponse(r) ==
    [i \in 1..Len(r) |->
        [pitch |-> r[i][1], startTime |-> r[i][2], endTime |-> r[i][3],
         velocity |-> 100]]

\* the .then handler of the frame loop: response.map(...)
convertedResponse(response) ==
    LET n == 60 * StepsPerSecond
        d == bpm * SUBDIVISIONS
    IN  [i \in 1..Len(response) |->
            [pitch |-> response[i].pitch,
             startPosition |-> (response[i].startTime * d) \div n,
             endPosition |-> -((-(response[i].endTime * d)) \div n),
             startTime |-> response[i].startTime,
             endTime |-> response[i].endTime,
             velocity |-> response[i].velocity]]

(***************************************************************************)
(* The silent branch of a frame (lines 538-548 and 555-569).  noteState is *)
(* the currentNoteState the loop closure and its handleNoteEnd see.  The   *)
(* result is the new silenceStartTime and the times handleNoteEnd was      *)
(* called with, in order.  0.1 s and 0.2 s are compared in ticks.          *)
(***************************************************************************)
SILENCE_THRESHOLD_TENTHS == 2

SilentFrame(noteState, sst, currentTime) ==
    LET first ==
            IF noteState.isActive
            THEN IF sst = <<>>
                 THEN [sst |-> <<currentTime>>, ends |-> <<>>]
                 ELSE IF 10 * (currentTime - sst[1]) > StepsPerSecond
                      THEN [sst |-> <<>>, ends |-> <<currentTime>>]
                      ELSE [sst |-> sst, ends |-> <<>>]
            ELSE [sst |-> sst, ends |-> <<>>]
        sst2 == IF noteState.isActive /\ first.sst = <<>>
                THEN <<currentTime>> ELSE first.sst
    IN  IF sst2 # <<>> /\
           10 * (currentTime - sst2[1]) > SILENCE_THRESHOLD_TENTHS * StepsPerSecond
        THEN [sst |-> <<>>, ends |-> Append(first.ends, sst2[1])]
        ELSE [sst |-> sst2, ends |-> first.ends]

RECURSIVE EndNotes(_, _, _, _)
\* the store after the setUserNotes updaters of the handleNoteEnd calls
EndNotes(prev, noteState, ends, addMode) ==
    IF ends = <<>> \/ ~noteState.isActive
    THEN prev
    ELSE EndNotes(CommitNote(prev, NoteOfState(noteState, Head(ends)), addMode),
                  noteState, Tail(ends), addMode)

EndCommits(prev, noteState, ends, addMode) ==
    IF ~noteState.isActive
    THEN <<>>
    ELSE [i \in 1..Len(ends) |->
             CommitRecord(NoteOfState(noteState, ends[i]), noteState.pitch, addMode,
                          Len(EndNotes(prev, noteState, SubSeq(ends, 1, i - 1),
                                       addMode)))]

(***************************************************************************)
(* State machine of the application.                                       *)
(***************************************************************************)
InitApp ==
    /\ isRunning = FALSE
    /\ isRunningRef = FALSE
    /\ frameScheduled = FALSE
    /\ loopEnv = [isWaitingForMagenta |-> FALSE, currentNoteState |-> NoNoteState]
    /\ started = FALSE
    /\ relativeTime = 0
    /\ lastLoopEndPosition = -1
    /\ silenceStartTime = <<>>
    /\ userNotes = <<>>
    /\ userNotesRef = <<>>
    /\ previousNotesRef = <<>>
    /\ isWaitingForMagenta = FALSE
    /\ pending = <<>>
    /\ aiNotes = <<>>
    /\ isAddMode = TRUE
    /\ currentNoteState = NoNoteState
    /\ magentaManager = FALSE
    /\ toggleJamPc = "idle"
    /\ sessions = 0
    /\ last = Idle

Init ==
    /\ InitApp
    /\ input = NoCall
    /\ output = NoCall

\* useEffect initMagenta: the manager is attached once initialize() resolved
InitMagenta ==
    /\ ~magentaManager
    /\ magentaManager' = TRUE
    /\ last' = Idle
    /\ UNCHANGED <<isRunning, isRunningRef, frameScheduled, loopEnv, started,
                   relativeTime, lastLoopEndPosition, silenceStartTime, userNotes,
                   userNotesRef, previousNotesRef, isWaitingForMagenta, pending,
                   aiNotes, isAddMode, currentNoteState, toggleJamPc, sessions,
                   input, output>>

\* handleModeChange
HandleModeChange ==
    /\ isAddMode' = ~isAddMode
    /\ last' = Idle
    /\ UNCHANGED <<isRunning, isRunningRef, frameScheduled, loopEnv, started,
                   relativeTime, lastLoopEndPosition, silenceStartTime, userNotes,
                   userNotesRef, previousNotesRef, isWaitingForMagenta, pending,
                   aiNotes, currentNoteState, magentaManager, toggleJamPc, sessions,
                   input, output>>

\* toggleJam, start path up to the await of startMetronome: startAudioAnalysis
\* clears the store and calls listen(), which creates the loop closure over the
\* state of this render and schedules its first frame
StartAudioAnalysis ==
    /\ ~isRunning
    /\ toggleJamPc = "idle"
    /\ sessions < MaxSessions
    /\ sessions' = sessions + 1
    /\ userNotes' = <<>>
    /\ loopEnv' = [isWaitingForMagenta |-> isWaitingForMagenta,
                   currentNoteState |-> currentNoteState]
    /\ started' = FALSE
    /\ relativeTime' = 0
    /\ lastLoopEndPosition' = -1
    /\ silenceStartTime' = <<>>
    /\ frameScheduled' = TRUE
    /\ toggleJamPc' = "metronome"
    /\ last' = Idle
    /\ UNCHANGED <<isRunning, isRunningRef, userNotesRef, previousNotesRef,
                   isWaitingForMagenta, pending, aiNotes, isAddMode,
                   currentNoteState, magentaManager,
                   input, output>>

\* toggleJam, start path after startMetronome resolved
StartFinish ==
    /\ toggleJamPc = "metronome"
    /\ toggleJamPc' = "idle"
    /\ isRunning' = TRUE
    /\ isRunningRef' = TRUE
    /\ last' = Idle
    /\ UNCHANGED <<frameScheduled, loopEnv, started, relativeTime,
                   lastLoopEndPosition, silenceStartTime, userNotes, userNotesRef,
                   previousNotesRef, isWaitingForMagenta, pending, aiNotes,
                   isAddMode, currentNoteState, magentaManager, sessions,
                   input, output>>

\* mutant: Stop drops the requests that are outstanding
StopJamCancels ==
    /\ isRunning
    /\ toggleJamPc = "idle"
    /\ isRunningRef' = FALSE
    /\ frameScheduled' = FALSE
    /\ isRunning' = FALSE
    /\ pending' = <<>>
    /\ isWaitingForMagenta' = FALSE
    /\ last' = Idle
    /\ UNCHANGED <<loopEnv, started, relativeTime, lastLoopEndPosition,
                   silenceStartTime, userNotes, userNotesRef, previousNotesRef,
                   aiNotes, isAddMode, currentNoteState, magentaManager,
                   toggleJamPc, sessions, input, output>>

\* toggleJam, stop path
StopJam ==
    /\ isRunning
    /\ toggleJamPc = "idle"
    /\ isRunningRef' = FALSE
    /\ frameScheduled' = FALSE
    /\ isRunning' = FALSE
    /\ last' = Idle
    /\ UNCHANGED <<loopEnv, started, relativeTime, lastLoopEndPosition,
                   silenceStartTime, userNotes, userNotesRef, previousNotesRef,
                   isWaitingForMagenta, pending, aiNotes, isAddMode,
                   currentNoteState, magentaManager, toggleJamPc, sessions,
                   input, output>>

RemoveAt(s, i) == SubSeq(s, 1, i - 1) \o SubSeq(s, i + 1, Len(s))

\* what the pitch sampler and the energy measure report for one frame:
\* silence, sound without a usable pitch, or a pitch with clarity above 0.7
Samples ==
    {[kind |-> "silent", pitch |-> 0], [kind |-> "unclear", pitch |-> 0]}
        \cup {[kind |-> "pitched", pitch |-> c] : c \in PitchCents}

(***************************************************************************)
(* One frame of the analysis loop (loop, lines 354-577).  dt is the time   *)
(* since the previous frame, sample what the sampler reports, soundTicks   *)
(* the ticks at which the player is heard.  thrown says where the body of  *)
(* the try block throws: "none", "analyser" (reading the analyser, before  *)
(* anything else), "sampler" (findPitch of the note detection, line 514)   *)
(* or "display" (findPitch of the pitch display, line 552).                *)
(***************************************************************************)
ThrowPoints == {"analyser", "sampler", "display"}

\* mutant: the catch block schedules the next frame as well
rescheduledAlways(thrown) == TRUE

\* catch: log and return; otherwise requestAnimationFrame(loop)
rescheduled(thrown) == thrown = "none"

FrameIn(dt, sample, soundTicks, thrown) ==
    /\ frameScheduled
    /\ IF ~isRunningRef
       THEN /\ frameScheduled' = FALSE
            /\ last' = Idle
            /\ UNCHANGED <<started, relativeTime, lastLoopEndPosition,
                           silenceStartTime, userNotes, userNotesRef,
                           previousNotesRef, isWaitingForMagenta, pending,
                           currentNoteState>>
       ELSE IF thrown = "analyser"
       THEN /\ frameScheduled' = rescheduled(thrown)
            /\ last' = [Idle EXCEPT !.event = "throw"]
            /\ UNCHANGED <<started, relativeTime, lastLoopEndPosition,
                           silenceStartTime, userNotes, userNotesRef,
                           previousNotesRef, isWaitingForMagenta, pending,
                           currentNoteState>>
       ELSE LET time == IF started THEN relativeTime + dt ELSE 0
                normalizedPosition == currentPositionOf(time) % totalPositions
                boundary == loopEndDetected(normalizedPosition, lastLoopEndPosition)
                dispatch ==
                    /\ boundary
                    /\ hasBufferChanged(userNotesRef, previousNotesRef)
                    /\ ~loopEnv.isWaitingForMagenta
                store == IF dispatch
                         THEN storeAfterCombine(userNotes, userNotesRef)
                         ELSE userNotes
                ref == IF dispatch
                       THEN notesAfterCombine(userNotesRef)
                       ELSE userNotesRef
                pitched == sample.kind = "pitched" /\ thrown # "sampler"
                note == NoteOfFrame(sample.pitch, normalizedPosition, time)
                silent == SilentFrame(loopEnv.currentNoteState, silenceStartTime, time)
            IN  /\ time <= MaxTime
                /\ thrown = "sampler" => sample.kind = "unclear"
                /\ thrown = "display" => sample.kind # "silent"
                /\ pitched => /\ time \in soundTicks
                              /\ Len(CommitNote(store, note, isAddMode)) <= MaxNotes
                /\ started' = TRUE
                /\ relativeTime' = time
                /\ lastLoopEndPosition' = normalizedPosition
                /\ frameScheduled' = rescheduled(thrown)
                /\ IF dispatch
                   THEN /\ previousNotesRef' = ref
                        /\ IF magentaManager
                           THEN /\ isWaitingForMagenta' = TRUE
                                /\ pending' = Append(pending,
                                        [notes |-> magentaNotes(userNotesRef)])
                           ELSE /\ isWaitingForMagenta' = FALSE
                                /\ pending' = pending
                   ELSE UNCHANGED <<previousNotesRef, isWaitingForMagenta, pending>>
                /\ IF pitched
                   THEN /\ userNotes' = CommitNote(store, note, isAddMode)
                        /\ userNotesRef' = userNotes'
                        /\ UNCHANGED <<silenceStartTime, currentNoteState>>
                   ELSE IF sample.kind = "silent"
                   THEN /\ silenceStartTime' = silent.sst
                        /\ userNotes' = EndNotes(store, loopEnv.currentNoteState,
                                                 silent.ends, isAddMode)
                        /\ currentNoteState' =
                              IF silent.ends # <<>> /\ loopEnv.currentNoteState.isActive
                              THEN NoNoteState ELSE currentNoteState
                        /\ userNotesRef' = ref
                   ELSE /\ userNotes' = store
                        /\ userNotesRef' = ref
                        /\ UNCHANGED <<silenceStartTime, currentNoteState>>
                /\ last' = [event |-> IF thrown = "none" THEN "frame" ELSE "throw",
                            boundary |-> boundary,
                            calls |-> IF dispatch /\ magentaManager THEN 1 ELSE 0,
                            commits |->
                               IF pitched
                               THEN <<CommitRecord(note, sample.pitch, isAddMode,
                                                   Len(userNotes))>>
                               ELSE IF sample.kind = "silent"
                               THEN EndCommits(store, loopEnv.currentNoteState,
                                               silent.ends, isAddMode)
                               ELSE <<>>]
    /\ UNCHANGED <<isRunning, isRunningRef, loopEnv, aiNotes, isAddMode,
                   magentaManager, toggleJamPc, sessions,
                   input, output>>

Frame(dt, sample) == FrameIn(dt, sample, SoundTicks, "none")

\* a frame in which the try block throws
FrameThrows(dt, sample, thrown) ==
    /\ isRunningRef
    /\ FrameIn(dt, sample, SoundTicks, thrown)

\* what generateResponse resolves with when the model answers r
generateResponse(notes, r) ==
    IF validNotes(notes) = <<>> THEN <<>> ELSE convertedModelResponse(r)

\* the promise of request i resolves: .then and .finally of the frame loop
ResolveResponse(i, r) ==
    /\ i \in 1..Len(pending)
    /\ LET response == generateResponse(pending[i].notes, r)
       IN  /\ aiNotes' = IF Len(response) > 0
                         THEN convertedResponse(response) ELSE aiNotes
           /\ last' = [Idle EXCEPT !.event = "resolve"]
    /\ isWaitingForMagenta' = FALSE
    /\ pending' = RemoveAt(pending, i)
    /\ UNCHANGED <<isRunning, isRunningRef, frameScheduled, loopEnv, started,
                   relativeTime, lastLoopEndPosition, silenceStartTime, userNotes,
                   userNotesRef, previousNotesRef, isAddMode, currentNoteState,
                   magentaManager, toggleJamPc, sessions,
                   input, output>>

\* mutant: the flag is cleared in .then, not in .finally
RejectKeepsFlag(i) ==
    /\ i \in 1..Len(pending)
    /\ pending' = RemoveAt(pending, i)
    /\ last' = [Idle EXCEPT !.event = "reject"]
    /\ UNCHANGED <<isRunning, isRunningRef, frameScheduled, loopEnv, started,
                   relativeTime, lastLoopEndPosition, silenceStartTime, userNotes,
                   userNotesRef, previousNotesRef, isWaitingForMagenta, aiNotes,
                   isAddMode, currentNoteState, magentaManager, toggleJamPc,
                   sessions,
                   input, output>>

\* mutant: the .catch handler clears the generated notes
RejectClearsAiNotes(i) ==
    /\ i \in 1..Len(pending)
    /\ isWaitingForMagenta' = FALSE
    /\ aiNotes' = <<>>
    /\ pending' = RemoveAt(pending, i)
    /\ last' = [Idle EXCEPT !.event = "reject"]
    /\ UNCHANGED <<isRunning, isRunningRef, frameScheduled, loopEnv, started,
                   relativeTime, lastLoopEndPosition, silenceStartTime, userNotes,
                   userNotesRef, previousNotesRef, isAddMode, currentNoteState,
                   magentaManager, toggleJamPc, sessions,
                   input, output>>

\* mutant: the .catch handler sets the last dispatched phrase back to empty
RejectRollsBack(i) ==
    /\ i \in 1..Len(pending)
    /\ isWaitingForMagenta' = FALSE
    /\ previousNotesRef' = <<>>
    /\ pending' = RemoveAt(pending, i)
    /\ last' = [Idle EXCEPT !.event = "reject"]
    /\ UNCHANGED <<isRunning, isRunningRef, frameScheduled, loopEnv, started,
                   relativeTime, lastLoopEndPosition, silenceStartTime, userNotes,
                   userNotesRef, aiNotes, isAddMode, currentNoteState,
                   magentaManager, toggleJamPc, sessions,
                   input, output>>

\* the promise of request i rejects (the model call threw): .catch and .finally
RejectResponse(i) ==
    /\ i \in 1..Len(pending)
    /\ validNotes(pending[i].notes) # <<>>
    /\ isWaitingForMagenta' = FALSE
    /\ pending' = RemoveAt(pending, i)
    /\ last' = [Idle EXCEPT !.event = "reject"]
    /\ UNCHANGED <<isRunning, isRunningRef, frameScheduled, loopEnv, started,
                   relativeTime, lastLoopEndPosition, silenceStartTime, userNotes,
                   userNotesRef, previousNotesRef, aiNotes, isAddMode,
                   currentNoteState, magentaManager, toggleJamPc, sessions,
                   input, output>>

Next ==
    \/ InitMagenta
    \/ HandleModeChange
    \/ StartAudioAnalysis
    \/ StartFinish
    \/ StopJam
    \/ \E dt \in 0..MaxDt, sample \in Samples : Frame(dt, sample)
    \/ \E dt \in 0..MaxDt, sample \in Samples, thrown \in ThrowPoints :
            FrameThrows(dt, sample, thrown)
    \/ \E i \in 1..Len(pending), r \in ModelResponses : ResolveResponse(i, r)
    \/ \E i \in 1..Len(pending) : RejectResponse(i)

Spec == Init /\ [][Next]_vars

(***************************************************************************)
(* The segmenter functions.  Nothing in the application calls              *)
(* handleNoteStart, and the frame loop reaches handleNoteEnd only with the *)
(* note state of its closure, so they are driven here directly: each call  *)
(* is made from the latest render, at a time not before the previous one;  *)
(* relativeTime is the time of the last call.                              *)
(***************************************************************************)
\* frequencies handleNoteStart is called with, in cents from 440 Hz: 50 cents
\* round to the MIDI number one above that of 440 Hz
SegPitchCents == {0, 50, 6600}

NewNoteState(pitch, time) ==
    [isActive |-> TRUE, pitch |-> pitch, startTime |-> time,
     startPosition |-> calculatePosition(time), lastUpdateTime |-> time]

\* currentDuration >= (maxNoteDuration / gridDivision) * secondsPerBeat
MaxDurationReached(noteState, time) ==
    (time - noteState.startTime) * gridDivision * bpm
        >= maxNoteDuration * 60 * StepsPerSecond

\* mutant: a pitch change counts from two semitones on
SplitsNoteFromTwoSemitones(noteState, pitch, time) ==
    /\ noteState.isActive
    /\ IF MidiOf(pitch) - MidiOf(noteState.pitch) >= 2
          \/ MidiOf(noteState.pitch) - MidiOf(pitch) >= 2
       THEN TRUE
       ELSE MaxDurationReached(noteState, time)

\* handleNoteStart: does this call end the active note and open a new one?
SplitsNote(noteState, pitch, time) ==
    /\ noteState.isActive
    /\ IF MidiOf(pitch) - MidiOf(noteState.pitch) >= 1
          \/ MidiOf(noteState.pitch) - MidiOf(pitch) >= 1
       THEN TRUE
       ELSE MaxDurationReached(noteState, time)

HandleNoteStart(pitch, dt) ==
    LET time == relativeTime + dt
        split == SplitsNote(currentNoteState, pitch, time)
        note == NoteOfState(currentNoteState, time)
    IN  /\ time <= SegMaxTime
        /\ relativeTime' = time
        /\ IF ~currentNoteState.isActive
           THEN /\ currentNoteState' = NewNoteState(pitch, time)
                /\ userNotes' = userNotes
           ELSE IF split
           THEN /\ Len(CommitNote(userNotes, note, isAddMode)) <= MaxNotes
                /\ userNotes' = CommitNote(userNotes, note, isAddMode)
                /\ currentNoteState' = NewNoteState(pitch, time)
           ELSE UNCHANGED <<userNotes, currentNoteState>>
        /\ last' = [event |-> "noteStart", boundary |-> FALSE, calls |-> 0,
                    pitch |-> pitch,
                    commits |-> IF split
                                THEN <<CommitRecord(note, currentNoteState.pitch,
                                                    isAddMode, Len(userNotes))>>
                                ELSE <<>>]
        /\ UNCHANGED <<isRunning, isRunningRef, frameScheduled, loopEnv, started,
                       lastLoopEndPosition, silenceStartTime, userNotesRef,
                       previousNotesRef, isWaitingForMagenta, pending, aiNotes,
                       isAddMode, magentaManager, toggleJamPc, sessions,
                       input, output>>

HandleNoteEnd(dt) ==
    LET time == relativeTime + dt
        note == NoteOfState(currentNoteState, time)
    IN  /\ time <= SegMaxTime
        /\ relativeTime' = time
        /\ IF currentNoteState.isActive
           THEN /\ Len(CommitNote(userNotes, note, isAddMode)) <= MaxNotes
                /\ userNotes' = CommitNote(userNotes, note, isAddMode)
                /\ currentNoteState' = NoNoteState
           ELSE UNCHANGED <<userNotes, currentNoteState>>
        /\ last' = [event |-> "noteEnd", boundary |-> FALSE, calls |-> 0,
                    commits |-> IF currentNoteState.isActive
                                THEN <<CommitRecord(note, currentNoteState.pitch,
                                                    isAddMode, Len(userNotes))>>
                                ELSE <<>>]
        /\ UNCHANGED <<isRunning, isRunningRef, frameScheduled, loopEnv, started,
                       lastLoopEndPosition, silenceStartTime, userNotesRef,
                       previousNotesRef, isWaitingForMagenta, pending, aiNotes,
                       isAddMode, magentaManager, toggleJamPc, sessions,
                       input, output>>

NextSeg ==
    \/ HandleModeChange
    \/ \E pitch \in SegPitchCents, dt \in 0..MaxDt : HandleNoteStart(pitch, dt)
    \/ \E dt \in 0..MaxDt : HandleNoteEnd(dt)

SpecSeg == Init /\ [][NextSeg]_vars

(***************************************************************************)
(* The player is heard in the first two cells and in the last cell of the  *)
(* loop; the model collaborator is never attached.                         *)
(***************************************************************************)
PlayTicks == {0, 1, 2, 30, 31}

PlayFrame(dt, sample) == FrameIn(dt, sample, PlayTicks, "none")

NextPlay ==
    \/ HandleModeChange
    \/ StartAudioAnalysis
    \/ StartFinish
    \/ StopJam
    \/ \E dt \in 0..MaxDt, sample \in Samples : PlayFrame(dt, sample)

SpecPlay == Init /\ [][NextPlay]_vars

(***************************************************************************)
(* The frame loop with a note active: handleNoteStart is driven directly   *)
(* to open one note before the first session is started, sessions are      *)
(* started and stopped, and the player is never heard by the loop, so that *)
(* its frames run the silence checks.                                      *)
(***************************************************************************)
SilMaxTime == 6      \* ticks of a session explored while the player is silent

SilentFrameStep(dt, sample) ==
    /\ relativeTime + dt <= SilMaxTime
    /\ FrameIn(dt, sample, {}, "none")

NoteStartBeforeSession(pitch, dt) ==
    /\ sessions = 0
    /\ ~currentNoteState.isActive
    /\ HandleNoteStart(pitch, dt)

NextSil ==
    \/ \E pitch \in SegPitchCents, dt \in 0..MaxDt :
            NoteStartBeforeSession(pitch, dt)
    \/ HandleModeChange
    \/ StartAudioAnalysis
    \/ StartFinish
    \/ StopJam
    \/ \E dt \in 0..MaxDt, sample \in Samples : SilentFrameStep(dt, sample)

SpecSil == Init /\ [][NextSil]_vars

(***************************************************************************)
(* The committed store over the first session: the player is heard in the  *)
(* first two cells only, the mode button is used while the session runs,   *)
(* and the loop end that follows takes the phrase from the store.          *)
(***************************************************************************)
StoreTicks == {0, 1, 2}

StartFirstSession ==
    /\ sessions = 0
    /\ StartAudioAnalysis

ModeChangeWhileRunning ==
    /\ isRunning
    /\ HandleModeChange

StoreFrame(dt, sample) ==
    /\ isRunningRef
    /\ FrameIn(dt, sample, StoreTicks, "none")

NextStore ==
    \/ StartFirstSession
    \/ StartFinish
    \/ ModeChangeWhileRunning
    \/ \E dt \in 0..MaxDt, sample \in Samples : StoreFrame(dt, sample)

SpecStore == Init /\ [][NextStore]_vars

(***************************************************************************)
(* Functions applied on their own: the arguments are drawn at the start,   *)
(* one step applies the function.                                          *)
(***************************************************************************)
MaxPositionTime == 12     \* calculatePosition: times this far from 0 and from the loop end

\* calculatePosition is applied with times in ticks of 1/32 s
PositionTicksPerSecond == 32

barCountOptions == {2, 4, 8}
GRID_DIVISION_OPTIONS == {8, 4, 2}
BpmValues == {60, 80, 120}

\* secondsPerSubdivision and the length of the loop, in ticks
PositionCellTicks(c) == (60 * PositionTicksPerSecond) \div (c.bpm * c.division)
PositionLoopTicks(c) == c.bars * BEATS_PER_BAR * c.division * PositionCellTicks(c)

PositionInputs ==
    LET Configs == [fn : {"calculatePosition"}, bpm : BpmValues,
                    bars : barCountOptions, division : GRID_DIVISION_OPTIONS]
    IN  {[fn |-> c.fn, bpm |-> c.bpm, bars |-> c.bars, division |-> c.division,
          time |-> t] :
            c \in Configs, t \in 0..MaxPositionTime}
        \cup
        {[fn |-> c.fn, bpm |-> c.bpm, bars |-> c.bars, division |-> c.division,
          time |-> PositionLoopTicks(c) - k] :
            c \in Configs, k \in 1..MaxPositionTime}

MaxCombineLen == 3        \* the combiner: notes in the sequence it is given

CombinePitches == {60, 64}

\* notes as the frame loop commits them, one cell long, in any order
CombineNotes ==
    {[pitch |-> m, startPosition |-> c, endPosition |-> c + 1,
      startTime |-> c * CellTicks, endTime |-> (c + 1) * CellTicks] :
        m \in CombinePitches, c \in 0..2}

CombineInputs ==
    UNION {[fn : {"combine"}, notes : [1..n -> CombineNotes]] : n \in 0..MaxCombineLen}

ApplyCombine ==
    /\ input.fn = "combine"
    /\ output = NoCall
    /\ output' = [fn |-> "combine",
                  notes |-> combinedNotes(input.notes),
                  notesAfter |-> notesAfterCombine(input.notes)]
    /\ UNCHANGED <<appVars, input>>

MaxGenerateLen == 3       \* generateResponse: notes in the phrase it is given

\* pitches around the ends of the valid range
GeneratePitches == {47, 48, 60, 83, 84}

\* phrases as the frame loop sends them: the k-th note lasts from tick 2k - 2
\* to tick 2k
GenerateInputs ==
    UNION {[fn : {"generateResponse"},
            notes : {[k \in 1..n |->
                        [pitch |-> f[k], startTime |-> 2 * k - 2,
                         endTime |-> 2 * k, velocity |-> 100]] :
                      f \in [1..n -> GeneratePitches]},
            response : ModelResponses] : n \in 0..MaxGenerateLen}

ApplyGenerateResponse ==
    /\ input.fn = "generateResponse"
    /\ output = NoCall
    /\ output' = [fn |-> "generateResponse",
                  called |-> modelIsCalled(input.notes),
                  sequence |-> sequenceNotes(input.notes),
                  result |-> generateResponse(input.notes, input.response)]
    /\ UNCHANGED <<appVars, input>>

(***************************************************************************)
(* exportMIDI.  Seconds are exact fractions <<numerator, denominator>> in  *)
(* lowest terms with a positive denominator.                               *)
(***************************************************************************)
RECURSIVE GCD(_, _)
GCD(a, b) == IF b = 0 THEN a ELSE GCD(b, a % b)

Abs(a) == IF a < 0 THEN -a ELSE a

Fraction(n, d) ==
    LET g == GCD(Abs(n), d)
    IN  <<(IF n < 0 THEN -(Abs(n) \div g) ELSE n \div g), d \div g>>

FractionMinus(x, y) == Fraction(x[1] * y[2] - y[1] * x[2], x[2] * y[2])

\* mutant: the event lasts until the end time, counted from 0
midiEventUntilEnd(note, beatsPerMinute, division) ==
    LET startTime == Fraction(note.startPosition * 60, beatsPerMinute * division)
        endTime == Fraction(note.endPosition * 60, beatsPerMinute * division)
    IN  [midi |-> note.pitch + 12, time |-> startTime, duration |-> endTime]

\* the argument of addNote for one note
midiEvent(note, beatsPerMinute, division) ==
    LET startTime == Fraction(note.startPosition * 60, beatsPerMinute * division)
        endTime == Fraction(note.endPosition * 60, beatsPerMinute * division)
    IN  [midi |-> note.pitch + 12, time |-> startTime,
         duration |-> FractionMinus(endTime, startTime)]

\* the notes added to a track by notes.forEach
midiTrack(notes, beatsPerMinute, division) ==
    [i \in 1..Len(notes) |-> midiEvent(notes[i], beatsPerMinute, division)]

MaxExportLen == 2         \* exportMIDI: notes in the committed store

\* notes of pitch 60 and 115 that start in cell 0 or 3 and end in cell 1 or 4
ExportNotes ==
    [pitch : {60, 115}, startPosition : {0, 3}, endPosition : {1, 4}]

ExportInputs ==
    UNION {[fn : {"exportMIDI"},
            userNotes : [1..n -> ExportNotes],
            aiNotes : {<<>>} \cup {<<x>> : x \in ExportNotes},
            bpm : BpmValues,
            division : GRID_DIVISION_OPTIONS] : n \in 0..MaxExportLen}

ApplyExportMIDI ==
    /\ input.fn = "exportMIDI"
    /\ output = NoCall
    /\ output' = [fn |-> "exportMIDI",
                  userTrack |-> midiTrack(input.userNotes, input.bpm, input.division),
                  aiTrack |-> midiTrack(input.aiNotes, input.bpm, input.division)]
    /\ UNCHANGED <<appVars, input>>

ApplyCalculatePosition ==
    /\ input.fn = "calculatePosition"
    /\ output = NoCall
    /\ output' =
          [fn |-> "calculatePosition",
           position |-> calculatePositionOf(input.time, PositionTicksPerSecond,
                                            input.bpm, input.bars, input.division),
           shifted |-> calculatePositionOf(input.time + PositionLoopTicks(input),
                                           PositionTicksPerSecond,
                                           input.bpm, input.bars, input.division)]
    /\ UNCHANGED <<appVars, input>>

FnInputs ==
    PositionInputs \cup CombineInputs \cup GenerateInputs \cup ExportInputs

InitFn ==
    /\ InitApp
    /\ input \in FnInputs
    /\ output = NoCall

NextFn ==
    \/ ApplyCalculatePosition
    \/ ApplyCombine
    \/ ApplyGenerateResponse
    \/ ApplyExportMIDI

SpecFn == InitFn /\ [][NextFn]_vars

(***************************************************************************)
(* Properties.                                                             *)
(***************************************************************************)
FrameStep == last'.event = "frame"

\* a frame took the dispatch branch: only there previousNotesRef changes
DispatchStep == FrameStep /\ previousNotesRef' # previousNotesRef

\* C1: single-flight, at most one request issued by the frame loop is
\* outstanding at any time.
C1_SingleFlight == Len(pending) <= 1

\* C2: at a loop boundary where the committed store equals the content of the
\* most recent dispatch (previousNotesRef is non-empty exactly when there was
\* one), no request is issued, whether or not that dispatch has settled.
C2_NoDispatchForSameContent ==
    [][(FrameStep /\ last'.boundary /\ previousNotesRef # <<>>
            /\ userNotes = previousNotesRef)
        => (last'.calls = 0 /\ pending' = pending)]_vars

\* a boundary passed with the store equal to the phrase of a dispatch that is
\* still outstanding, and nothing was sent
C2_Witness ==
    /\ last.event = "frame" /\ last.boundary /\ last.commits = <<>>
    /\ last.calls = 0
    /\ previousNotesRef # <<>>
    /\ userNotes = previousNotesRef
    /\ pending # <<>>

\* C3: at every loop boundary where the committed store differs from the last
\* dispatched snapshot and no request is in flight, the model is invoked
\* exactly once in that frame (stated for frames at which the model
\* collaborator is attached to the window).
C3_DispatchOncePerChangedBoundary ==
    [][(FrameStep /\ last'.boundary /\ magentaManager
            /\ userNotes # previousNotesRef /\ pending = <<>>)
        => last'.calls = 1]_vars

\* C4 as claimed: the boundary fires on the first frame and then exactly on
\* the frames at which the position has wrapped to 0, for any frame times.
C4_FiresOnEveryWrap ==
    [][FrameStep =>
        (last'.boundary <=>
            (lastLoopEndPosition = -1
                \/ (lastLoopEndPosition' = 0 /\ lastLoopEndPosition # 0)))]_vars

\* C4 as amended: the boundary fires on the first frame of a session and then
\* exactly on the frames in cell 0 whose previous frame was in the last cell;
\* never on a frame in the cell of the previous frame; and lastLoopEndPosition
\* is the cell of the frame, on every frame.
C4_FiresOnLastToZero ==
    [][FrameStep =>
        /\ lastLoopEndPosition' = (relativeTime' \div CellTicks) % totalPositions
        /\ lastLoopEndPosition = -1 => last'.boundary
        /\ lastLoopEndPosition # -1 =>
              (last'.boundary <=>
                  (lastLoopEndPosition' = 0
                      /\ lastLoopEndPosition = totalPositions - 1))
        /\ lastLoopEndPosition' = lastLoopEndPosition => ~last'.boundary]_vars

\* the boundary fired on a wrap, one traversal after the first frame
C4_Witness ==
    /\ last.event = "frame" /\ last.boundary
    /\ relativeTime = totalPositions * CellTicks

\* C5: when a dispatched call settles, by resolving or by rejecting, the
\* in-flight flag is cleared; a dispatch that finds no model collaborator
\* clears it in the same frame; with no call outstanding the flag is clear.
C5_FlagCleared ==
    /\ [](pending = <<>> => ~isWaitingForMagenta)
    /\ [][(last'.event \in {"resolve", "reject"}) => ~isWaitingForMagenta']_vars
    /\ [][(DispatchStep /\ last'.calls = 0) => ~isWaitingForMagenta']_vars

\* a call rejected while the flag was set, and the flag is clear
C5_Witness ==
    /\ last.event = "reject"
    /\ ~isWaitingForMagenta
    /\ loopEnv.isWaitingForMagenta

\* C6: a rejection leaves the generated notes and the committed store as they
\* were, leaves the frame loop scheduled and running, and clears the flag.
C6_RejectionIsSwallowed ==
    [][(last'.event = "reject") =>
        /\ aiNotes' = aiNotes
        /\ userNotes' = userNotes
        /\ userNotesRef' = userNotesRef
        /\ frameScheduled' = frameScheduled
        /\ isRunningRef' = isRunningRef
        /\ ~isWaitingForMagenta']_vars

\* a call rejected while the loop runs with notes in the store and generated
\* notes on display
C6_Witness ==
    /\ last.event = "reject"
    /\ frameScheduled /\ isRunningRef
    /\ userNotes # <<>>
    /\ aiNotes # <<>>

\* C9: from Start until the first commit of the session (the store is empty),
\* the phrase the loop-boundary gate reads is empty.
C9_GateReadsClearedStore ==
    ((isRunning \/ toggleJamPc = "metronome") /\ userNotes = <<>>)
        => userNotesRef = <<>>

\* the notes of a store that are not at the given position, in their order
RECURSIVE NotAt(_, _)
NotAt(notes, position) ==
    IF notes = <<>>
    THEN <<>>
    ELSE IF Head(notes).startPosition = position
         THEN NotAt(Tail(notes), position)
         ELSE <<Head(notes)>> \o NotAt(Tail(notes), position)

\* C7: a commit in Add mode leaves the store unchanged if it holds a note with
\* the same (startPosition, pitch), and otherwise appends the note at the end.
C7_AddPolicy ==
    [][(Len(last'.commits) = 1 /\ last'.commits[1].addMode) =>
        LET note == last'.commits[1].note
        IN  IF \E i \in 1..Len(userNotes) :
                  /\ userNotes[i].startPosition = note.startPosition
                  /\ userNotes[i].pitch = note.pitch
            THEN userNotes' = userNotes
            ELSE userNotes' = userNotes \o <<note>>]_vars

\* an Add commit was skipped: the store holds another note with its position
\* and pitch, and not the note itself
C7_Witness ==
    /\ Len(last.commits) = 1 /\ last.commits[1].addMode
    /\ Len(userNotes) = last.commits[1].before
    /\ \A i \in 1..Len(userNotes) : userNotes[i] # last.commits[1].note
    /\ \E i \in 1..Len(userNotes) :
          /\ userNotes[i].startPosition = last.commits[1].note.startPosition
          /\ userNotes[i].pitch = last.commits[1].note.pitch

C10_PitchClamped ==
    /\ \A i \in 1..Len(userNotes) : userNotes[i].pitch \in 0..127
    /\ \A k \in 1..Len(last.commits) :
          last.commits[k].note.pitch = Clamp(MidiOf(last.commits[k].cents))

\* C11: every committed note has startPosition and endPosition in
\* 0..totalPositions - 1, so that endPosition is reached from startPosition by
\* fewer than totalPositions forward steps with wraparound; a note committed
\* in the last cell has the wrapped endPosition 0.
C11_PositionsAreCells ==
    \A i \in 1..Len(userNotes) :
        /\ userNotes[i].startPosition \in 0..(totalPositions - 1)
        /\ userNotes[i].endPosition \in 0..(totalPositions - 1)

\* C12: for every bar count, grid division and time, calculatePosition(t) is
\* round(t / secondsPerCell) mod totalCells (halves round up), lies in
\* 0..totalCells - 1, is unchanged by another modulo, and equals
\* calculatePosition(t + totalCells * secondsPerCell).
C12_PositionWrapsAndRepeats ==
    output.fn = "calculatePosition" =>
        LET total == input.bars * BEATS_PER_BAR * input.division
            cell == PositionCellTicks(input)
        IN  /\ output.position \in 0..(total - 1)
            /\ output.position % total = output.position
            /\ output.shifted = output.position
            /\ \E q \in 0..(total + MaxPositionTime) :
                  /\ 2 * q * cell - cell <= 2 * input.time
                  /\ 2 * input.time < 2 * q * cell + cell
                  /\ output.position = q % total

\* a time less than half a cell before the end of the loop rounds up to
\* totalCells and wraps to cell 0
C12_Witness ==
    /\ output.fn = "calculatePosition"
    /\ input.time < PositionLoopTicks(input)
    /\ 2 * input.time >= 2 * PositionLoopTicks(input) - PositionCellTicks(input)
    /\ output.position = 0

\* C13: one uninterrupted sounding of a constant pitch yields exactly one note:
\* a pitched frame that follows a pitched frame of the same frequency
\* continues the sounding and adds no note to the store, in whichever cell it
\* falls.
C13_OneNotePerSounding ==
    [][(/\ last.event = "frame" /\ Len(last.commits) = 1
        /\ FrameStep /\ Len(last'.commits) = 1
        /\ last'.commits[1].cents = last.commits[1].cents)
        => Len(userNotes') = Len(userNotes)]_vars

\* C14: a call of handleNoteStart that reports the pitch of the active note
\* splits the note exactly when its elapsed duration has reached
\* (maxNoteDuration / gridDivision) beats; the note committed by the split
\* spans no more than maxNoteDuration cells, and the note opened by it starts
\* at the cell where the committed note ends.
C14_SplitAtMaxDuration ==
    [][(/\ last'.event = "noteStart"
        /\ currentNoteState.isActive
        /\ MidiOf(currentNoteState'.pitch) = MidiOf(currentNoteState.pitch))
        => /\ Len(last'.commits) = 1
                <=> MaxDurationReached(currentNoteState, relativeTime')
           /\ \A k \in 1..Len(last'.commits) :
                LET note == last'.commits[k].note
                IN  /\ (note.endPosition - note.startPosition) % totalPositions
                          <= maxNoteDuration
                    /\ currentNoteState'.startPosition = note.endPosition]_vars

\* C15: a call of handleNoteStart with a pitch whose MIDI number differs by one
\* or more from the active note's makes exactly one commit, of the active
\* note ended at the time of the call, and leaves the segmenter active with
\* a note of the new pitch that starts at that time and position.
C15_PitchChangeClosesAndOpens ==
    [][(/\ last'.event = "noteStart"
        /\ currentNoteState.isActive
        /\ MidiOf(last'.pitch) # MidiOf(currentNoteState.pitch))
        => /\ Len(last'.commits) = 1
           /\ last'.commits[1].note = NoteOfState(currentNoteState, relativeTime')
           /\ userNotes' = CommitNote(userNotes, last'.commits[1].note, isAddMode)
           /\ currentNoteState' = NewNoteState(last'.pitch, relativeTime')
           /\ currentNoteState'.isActive]_vars

\* a jump of exactly one semitone closed a note, which was added to the store,
\* and the segmenter is active with the new pitch
C15_Witness ==
    /\ last.event = "noteStart" /\ Len(last.commits) = 1
    /\ MidiOf(last.pitch) = last.commits[1].note.pitch + 1
    /\ Len(userNotes) = last.commits[1].before + 1
    /\ userNotes[Len(userNotes)] = last.commits[1].note
    /\ currentNoteState.isActive
    /\ currentNoteState.pitch = last.pitch

\* C16: the silence checks of a frame convert an active note at most once: a
\* frame makes at most one commit by handleNoteEnd, and the note it commits
\* is the note that is active at that moment (a conversion resets the note
\* state, so a note is not converted again by a later frame).
C16_SilenceEndsNoteOnce ==
    [][(FrameStep /\ last'.commits # <<>>)
        => /\ Len(last'.commits) = 1
           /\ currentNoteState.isActive
           /\ last'.commits[1].note.startTime = currentNoteState.startTime
           /\ last'.commits[1].note.startPosition = currentNoteState.startPosition
           /\ ~currentNoteState'.isActive]_vars

\* the indices at which a run of equal pitches starts, and the k-th of them
RunStarts(notes) ==
    {i \in 1..Len(notes) : i = 1 \/ notes[i].pitch # notes[i - 1].pitch}

RunStart(notes, k) ==
    CHOOSE i \in RunStarts(notes) :
        Cardinality({j \in RunStarts(notes) : j < i}) = k - 1

RunEnd(notes, k) ==
    IF k = Cardinality(RunStarts(notes))
    THEN Len(notes)
    ELSE RunStart(notes, k + 1) - 1

\* C17: the combiner returns one note per run of consecutive equal pitches: no
\* more notes than it was given, no two adjacent notes of the same pitch,
\* each with the pitch and start of the first note of its run and the
\* endTime and endPosition of the last; the sequence it was given and its
\* notes are as before.
C17_CombinerMergesRuns ==
    output.fn = "combine" =>
        LET in == input.notes
            out == output.notes
        IN  /\ Len(out) <= Len(in)
            /\ Len(out) = Cardinality(RunStarts(in))
            /\ \A k \in 1..(Len(out) - 1) : out[k].pitch # out[k + 1].pitch
            /\ \A k \in 1..Len(out) :
                  /\ out[k].pitch = in[RunStart(in, k)].pitch
                  /\ out[k].startTime = in[RunStart(in, k)].startTime
                  /\ out[k].startPosition = in[RunStart(in, k)].startPosition
                  /\ out[k].endTime = in[RunEnd(in, k)].endTime
                  /\ out[k].endPosition = in[RunEnd(in, k)].endPosition
            /\ output.notesAfter = in

\* the pitches 60, 60, 64 were combined to two notes, the first of which ends
\* where the second note given ends
C17_Witness ==
    /\ output.fn = "combine"
    /\ Len(input.notes) = 3
    /\ input.notes[1].pitch = 60 /\ input.notes[2].pitch = 60
    /\ input.notes[3].pitch = 64
    /\ input.notes[1].endTime # input.notes[2].endTime
    /\ Len(output.notes) = 2
    /\ output.notes[1].endTime = input.notes[2].endTime

\* the indices of the notes with a pitch in 48..83, and the k-th of them
InRange(notes) ==
    {i \in 1..Len(notes) : notes[i].pitch \in 48..83}

InRangeAt(notes, k) ==
    CHOOSE i \in InRange(notes) : Cardinality({j \in InRange(notes) : j < i}) = k - 1

\* C18: generateResponse gives the model exactly the notes of its input with a
\* pitch in 48..83, in their order, with pitch and times unchanged; the
\* others are dropped; if none is left the model is not called and the
\* result is the empty list.
C18_FiltersToValidRange ==
    output.fn = "generateResponse" =>
        LET in == input.notes
            seq == output.sequence
        IN  /\ Len(seq) = Cardinality(InRange(in))
            /\ \A k \in 1..Len(seq) :
                  /\ seq[k].pitch = in[InRangeAt(in, k)].pitch
                  /\ seq[k].startTime = in[InRangeAt(in, k)].startTime
                  /\ seq[k].endTime = in[InRangeAt(in, k)].endTime
            /\ output.called <=> InRange(in) # {}
            /\ InRange(in) = {} => output.result = <<>>

\* a phrase with a note below the range, one inside and one above it: the
\* model was called with the one inside
C18_Witness ==
    /\ output.fn = "generateResponse"
    /\ Len(input.notes) = 3
    /\ input.notes[1].pitch = 47 /\ input.notes[2].pitch = 83
    /\ input.notes[3].pitch = 84
    /\ output.called
    /\ Len(output.sequence) = 1
    /\ output.sequence[1].pitch = 83

\* x = n / d as fractions
IsQuotient(x, n, d) == x[2] > 0 /\ x[1] * d = n * x[2]

C20_ThrowHaltsLoop ==
    /\ [][(last'.event = "throw") => ~frameScheduled']_vars
    /\ [][(~frameScheduled /\ isRunning)
            => /\ ~frameScheduled'
               /\ userNotes' = userNotes
               /\ userNotesRef' = userNotesRef
               /\ previousNotesRef' = previousNotesRef
               /\ Len(pending') <= Len(pending)]_vars

\* a frame after the first one of a running session threw while the session
\* has notes in its store, and no frame is scheduled
C20_Witness ==
    /\ last.event = "throw"
    /\ isRunning /\ isRunningRef
    /\ ~frameScheduled
    /\ relativeTime > 0
    /\ userNotes # <<>>

\* C21: at every loop-boundary evaluation the phrase the gate compares with
\* the baseline (userNotesRef) equals the committed store (userNotes) as the
\* commits and resets of the earlier steps left it.
C21_GateReadsCommittedStore ==
    [][(FrameStep /\ last'.boundary) => userNotesRef = userNotes]_vars

\* C22: the grid position a frame uses for the loop-boundary test and as the
\* start position of the note it commits is calculatePosition(relativeTime),
\* the time of the frame rounded to the nearest cell, modulo the cells.
C22_FramePositionIsCalculatePosition ==
    [][FrameStep =>
        /\ lastLoopEndPosition' = calculatePosition(relativeTime')
        /\ \A k \in 1..Len(last'.commits) :
              last'.commits[k].note.startPosition
                  = calculatePosition(relativeTime')]_vars

\* C23: every generated note on display has the grid positions that
\* calculatePosition gives for its start and end times (nearest cell of the
\* configured gridDivision, modulo the cells), so both lie in
\* 0..totalPositions - 1.
C23_ResponseOnGrid ==
    \A i \in 1..Len(aiNotes) :
        /\ aiNotes[i].startPosition = calculatePosition(aiNotes[i].startTime)
        /\ aiNotes[i].endPosition = calculatePosition(aiNotes[i].endTime)
        /\ aiNotes[i].startPosition \in 0..(totalPositions - 1)
        /\ aiNotes[i].endPosition \in 0..(totalPositions - 1)

\* C24: while a note is active and has not reached its maximum duration, a
\* call of handleNoteStart with a pitch of the same MIDI number as the active
\* note's, or less than one semitone (100 cents) away from it, leaves the
\* active note as it is and commits nothing.
C24_SmallPitchChangeContinues ==
    [][(/\ last'.event = "noteStart"
        /\ currentNoteState.isActive
        /\ ~MaxDurationReached(currentNoteState, relativeTime')
        /\ \/ MidiOf(last'.pitch) = MidiOf(currentNoteState.pitch)
           \/ Abs(last'.pitch - currentNoteState.pitch) < 100)
        => /\ currentNoteState' = currentNoteState
           /\ last'.commits = <<>>
           /\ userNotes' = userNotes]_vars

\* a step applied a commit in Replace mode
ReplaceCommitStep == \E k \in 1..Len(last'.commits) : ~last'.commits[k].addMode

\* C25: a step that is neither a Replace-mode commit nor a session start keeps
\* every stored note: the notes of the store before the step are the first
\* notes of the store after it, with all fields unchanged and in their order.
C25_StoredNotesAreKept ==
    [][(~ReplaceCommitStep /\ sessions' = sessions)
        => /\ Len(userNotes') >= Len(userNotes)
           /\ SubSeq(userNotes', 1, Len(userNotes)) = userNotes]_vars

\* at a loop end the phrase was taken from a store of two notes of one pitch
\* in neighbouring cells, which the combiner merges, and the store still
\* holds the two notes with their own ends
C25_Witness ==
    /\ last.event = "frame" /\ last.boundary /\ last.commits = <<>>
    /\ Len(userNotes) = 2
    /\ previousNotesRef = userNotes
    /\ userNotes[1].pitch = userNotes[2].pitch
    /\ userNotes[2].startPosition = userNotes[1].startPosition + 1
    /\ userNotes[1].endPosition = userNotes[1].startPosition + 1
    /\ userNotes[1].endTime # userNotes[2].endTime

\* C26: a commit is applied with the policy of the mode flag as it is when the
\* commit is applied: Add (skip if a note of the same position and pitch is
\* stored, else append) if the flag says Add, Replace (remove the notes at
\* the position, append) otherwise; a toggle of the flag leaves the store
\* and the phrase the gate reads as they are.
C26_PolicyOfCurrentMode ==
    /\ [][(FrameStep /\ Len(last'.commits) = 1) =>
            LET note == last'.commits[1].note
            IN  IF isAddMode
                THEN IF \E i \in 1..Len(userNotes) :
                          /\ userNotes[i].startPosition = note.startPosition
                          /\ userNotes[i].pitch = note.pitch
                     THEN userNotes' = userNotes
                     ELSE userNotes' = userNotes \o <<note>>
                ELSE userNotes' = NotAt(userNotes, note.startPosition) \o <<note>>]_vars
    /\ [][(isAddMode' # isAddMode)
            => (userNotes' = userNotes /\ userNotesRef' = userNotesRef)]_vars

\* the session was started in Add mode and stored two notes at one position,
\* which only Add commits do; the button was pressed while it ran, and the
\* commit that followed removed both and left its own note
C26_Witness ==
    /\ last.event = "frame" /\ Len(last.commits) = 1
    /\ ~last.commits[1].addMode
    /\ ~isAddMode
    /\ last.commits[1].before = 2
    /\ userNotes = <<last.commits[1].note>>
    /\ isRunning

\* C27: no two notes of the committed store have the same startPosition and
\* the same pitch.
C27_NoDuplicateNotes ==
    \A i, j \in 1..Len(userNotes) :
        (/\ userNotes[i].startPosition = userNotes[j].startPosition
         /\ userNotes[i].pitch = userNotes[j].pitch) => i = j

\* the store holds two notes of different pitch at one position, and an Add
\* commit of a third note, made later with the position and pitch of the
\* first of them, was refused
C27_Witness ==
    /\ last.event = "frame" /\ Len(last.commits) = 1
    /\ last.commits[1].addMode
    /\ last.commits[1].before = 2
    /\ Len(userNotes) = 2
    /\ userNotes[1].startPosition = userNotes[2].startPosition
    /\ userNotes[1].pitch # userNotes[2].pitch
    /\ last.commits[1].note.startPosition = userNotes[1].startPosition
    /\ last.commits[1].note.pitch = userNotes[1].pitch
    /\ last.commits[1].note # userNotes[1]
    /\ relativeTime > 0

\* C28: the last dispatched phrase is not rolled back.  A request that
\* resolves or rejects leaves previousNotesRef as the dispatch set it; a
\* dispatch that finds no model collaborator still records the phrase; and
\* at a loop boundary with nothing outstanding where the store equals the
\* last dispatched phrase, no request is issued, the phrase stays recorded
\* and the in-flight flag stays clear.
C28_BaselineIsKept ==
    /\ [][(last'.event \in {"resolve", "reject"})
            => previousNotesRef' = previousNotesRef]_vars
    /\ [][(/\ FrameStep /\ last'.boundary /\ ~magentaManager
           /\ userNotesRef # previousNotesRef /\ ~loopEnv.isWaitingForMagenta)
            => (previousNotesRef' = userNotesRef /\ last'.calls = 0)]_vars
    /\ [][(/\ FrameStep /\ last'.boundary /\ pending = <<>>
           /\ previousNotesRef # <<>> /\ userNotes = previousNotesRef)
            => /\ last'.calls = 0
               /\ pending' = <<>>
               /\ previousNotesRef' = previousNotesRef
               /\ ~isWaitingForMagenta']_vars

\* a phrase was dispatched and its request has settled without a response
\* to show; at a later loop end of a loop that is free to dispatch, with the
\* model attached and the store equal to that phrase, nothing was sent
C28_Witness ==
    /\ last.event = "frame" /\ last.boundary
    /\ last.calls = 0 /\ last.commits = <<>>
    /\ magentaManager /\ ~loopEnv.isWaitingForMagenta
    /\ previousNotesRef # <<>>
    /\ userNotes = previousNotesRef /\ userNotesRef = previousNotesRef
    /\ pending = <<>> /\ aiNotes = <<>> /\ ~isWaitingForMagenta
    /\ relativeTime >= totalPositions * CellTicks

\* C29: once the start path of toggleJam has completed, the analysis loop is
\* running: with no error in a frame, a frame callback is scheduled for as
\* long as the session runs, however the first callback interleaves with the
\* steps of toggleJam that follow listen().
C29_LoopRunsAfterStart ==
    (isRunning /\ toggleJamPc = "idle") => frameScheduled

\* C30: the generated notes change only when a request resolves with a
\* non-empty list, and are then the remapped response and nothing else; a
\* request that resolves with an empty list or rejects leaves them as they
\* are; Stop and a session start leave them and the outstanding requests as
\* they are, so that a response is applied whenever it arrives.
C30_GeneratedNotesChangeOnResponse ==
    /\ [][(aiNotes' # aiNotes) => last'.event = "resolve"]_vars
    /\ [][(last'.event = "resolve") =>
            \E i \in 1..Len(pending), r \in ModelResponses :
                LET response == generateResponse(pending[i].notes, r)
                IN  /\ pending' = RemoveAt(pending, i)
                    /\ aiNotes' = IF response = <<>>
                                  THEN aiNotes
                                  ELSE convertedResponse(response)]_vars
    /\ [][(last'.event = "reject") => aiNotes' = aiNotes]_vars
    /\ [][(isRunning' # isRunning \/ sessions' # sessions)
            => (aiNotes' = aiNotes /\ pending' = pending)]_vars

\* a request dispatched in the first session was outstanding when the session
\* was stopped; it resolved after the second session was started, before
\* that session's first frame, and its notes are shown
C30_Witness ==
    /\ last.event = "resolve"
    /\ aiNotes # <<>>
    /\ sessions = 2
    /\ ~started
    /\ frameScheduled

====
